---- MODULE Spec2Model ----
(***************************************************************************)
(* Model of OptimizedMiVOLOAnalyzer (src/src/analyzer/age_gender_predictor *)
(* .py): one call of process_thumbnails, image by image, followed by       *)
(* _identify_creator on the accumulated face list.                         *)
(*                                                                         *)
(* Abstractions.  An image is described by what cv2.imread, the detector   *)
(* and the predictor give for it.  The 4096-component face feature of a    *)
(* face is a point of the integer plane, in units in which the DBSCAN      *)
(* radius is Eps = 20; ages are whole numbers.  An optional value is <<>>  *)
(* (Python None) or <<v>>.                                                 *)
(***************************************************************************)
EXTENDS Integers, Sequences, FiniteSets, TLC

VARIABLES
    image_paths,      \* argument of process_thumbnails: the images, in order
    username,         \* argument of process_thumbnails
    batch_size,       \* self.batch_size
    results,          \* self.results
    pc,               \* position in process_thumbnails
    i,                \* offset of the current group (outer loop variable)
    batch_paths,      \* image_paths[i:i+batch_size], as indices into image_paths
    k,                \* images of batch_paths already handled
    all_face_data,    \* the accumulated observations
    features,         \* the matrix given to DBSCAN by the _identify_creator call
    labels,           \* clustering.labels_ of the _identify_creator call
    creator_indices,  \* creator_indices of the _identify_creator call
    ret,              \* how process_thumbnails ended
    calls,            \* history: the library calls made, in order
    caught,           \* history: images whose handling ended in the except clause
    invocation,       \* a call of one of the other functions: its name and what it meets
    outcome           \* how that call ended, with the history of what it did

vars == <<image_paths, username, batch_size, results, pc, i, batch_paths, k,
          all_face_data, features, labels, creator_indices, ret, calls, caught,
          invocation, outcome>>

----------------------------------------------------------------------------
(* Bounds of the model *)

MaxImages == 3
MaxBatch == 2
MaxRetries == 3
MaxItems == 3
MaxLimit == 2
MaxStored == 2
MaxCalls == 3
MaxUsernames == 3
MaxMessages == 3
MaxSame == 12
MaxAccounts == 2
MaxAccountImages == 1
MaxObs == 4

(* Program constants *)

Eps == 20
MinSamples == 1
PcaMinSamples == 10
PcaMaxComponents == 100
FeatureSide == 64
NoiseLabel == -1
DownloadMaxRetries == 3
DownloadRetryDelay == 5

None == <<>>
NoInvocation == [fn |-> "none"]
NoOutcome == [kind |-> "none"]
Some(v) == <<v>>

Min(a, b) == IF a <= b THEN a ELSE b

----------------------------------------------------------------------------
(* Inputs *)

\* Feature points.  P0-P1 are exactly Eps apart, P1-P2 are close, P0-P2 are
\* farther apart than Eps; P3 and P4 are far from everything else.
P0 == <<0, 0>>
P1 == <<12, 16>>
P2 == <<15, 15>>
P3 == <<60, 0>>
P4 == <<0, 60>>
\* P5 is within Eps of both P0 and P1
P5 == <<6, 8>>

Face(feat, age, gender, crop) ==
    [feat |-> feat, age |-> age, gender |-> gender, crop |-> crop]

FaceA == Face(P0, Some(30), Some("male"), "ok")
FaceB == Face(P3, Some(50), Some("female"), "ok")
FaceC == Face(P1, Some(32), Some("male"), "ok")
FaceNoAge == Face(P0, None, Some("male"), "ok")
FaceNoGender == Face(P3, Some(50), None, "ok")
FaceDegenerate == Face(P0, Some(30), Some("male"), "empty")
FaceNoAgeDegenerate == Face(P0, None, None, "empty")

Image(readable, detector, predictor, faces) ==
    [readable |-> readable, detector |-> detector, predictor |-> predictor,
     faces |-> faces]

FacesImage(faces) == Image(TRUE, "ok", "ok", faces)

\* The images a run is given: one per way the handling of an image can go.
ImageKinds ==
    { Image(FALSE, "ok", "ok", <<>>),
      Image(TRUE, "raise", "ok", <<>>),
      Image(TRUE, "ok", "raise", <<FaceA>>),
      FacesImage(<<>>),
      FacesImage(<<FaceA>>),
      FacesImage(<<FaceB, FaceC>>),
      FacesImage(<<FaceNoAge, FaceA, FaceNoGender>>),
      FacesImage(<<FaceA, FaceDegenerate, FaceB>>),
      FacesImage(<<FaceNoAgeDegenerate, FaceB>>) }

SeqsUpTo(S, n) == UNION { [1..m -> S] : m \in 0..n }

ImageLists == SeqsUpTo(ImageKinds, MaxImages)

\* The usable faces the identification step is tried on: every feature point
\* with either of two (age, gender) pairs.
UsableFaces ==
    { Face(p, Some(a[1]), Some(a[2]), "ok") :
        p \in {P0, P1, P2, P3, P4}, a \in {<<30, "male">>, <<50, "female">>} }

FaceLists == SeqsUpTo(UsableFaces, MaxObs) \ {<<>>}
BatchSizes == 1..MaxBatch
Usernames == {"creator"}

----------------------------------------------------------------------------
(* process_thumbnails: the per-image body *)

Call(op, img, face) == [op |-> op, img |-> img, face |-> face]

Observation(img, face_ind, face) ==
    [img_path |-> img, face_ind |-> face_ind, face_feature |-> face.feat,
     age |-> face.age, gender |-> face.gender]

\* a face loop that skips a face only when both values are missing
RECURSIVE FaceLoopSkipsOnlyIfBoth(_, _, _, _)
FaceLoopSkipsOnlyIfBoth(img, faces, f, acc) ==
    IF f > Len(faces) THEN acc
    ELSE LET face == faces[f]
             called == Append(acc.calls, Call("resize", img, f))
         IN  IF face.crop = "empty"
             THEN [acc EXCEPT !.calls = called, !.raised = TRUE]
             ELSE IF face.age = None /\ face.gender = None
             THEN FaceLoopSkipsOnlyIfBoth(img, faces, f + 1,
                                          [acc EXCEPT !.calls = called])
             ELSE FaceLoopSkipsOnlyIfBoth(img, faces, f + 1,
                           [acc EXCEPT !.calls = called,
                                       !.obs = Append(@, Observation(img, f, face))])

\* The loop over the faces of image img from face f on.  acc is
\* [obs, calls, raised]: the observations appended, the calls made, and
\* whether an exception left the loop.  cv2.resize raises on an empty crop.
RECURSIVE FaceLoop(_, _, _, _)
FaceLoop(img, faces, f, acc) ==
    IF f > Len(faces) THEN acc
    ELSE LET face == faces[f]
             called == Append(acc.calls, Call("resize", img, f))
         IN  IF face.crop = "empty"
             THEN [acc EXCEPT !.calls = called, !.raised = TRUE]
             ELSE IF face.age = None \/ face.gender = None
             THEN FaceLoop(img, faces, f + 1, [acc EXCEPT !.calls = called])
             ELSE FaceLoop(img, faces, f + 1,
                           [acc EXCEPT !.calls = called,
                                       !.obs = Append(@, Observation(img, f, face))])

HandleFaces(img, faces) ==
    FaceLoop(img, faces, 1, [obs |-> <<>>, calls |-> <<>>, raised |-> FALSE])

CurrentImage == batch_paths[k + 1]

InImageLoop == pc = "image" /\ k < Len(batch_paths)

NextImage(newObs, newCalls, wasCaught) ==
    /\ k' = k + 1
    /\ all_face_data' = all_face_data \o newObs
    /\ calls' = calls \o newCalls
    /\ caught' = IF wasCaught THEN caught \cup {CurrentImage} ELSE caught
    /\ UNCHANGED <<invocation, outcome, image_paths, username, batch_size, results, pc, i,
                   batch_paths, features, labels, creator_indices, ret>>

\* an image that could not be read is given to the detector, which raises
ImageUnreadableDetects ==
    /\ InImageLoop
    /\ ~image_paths[CurrentImage].readable
    /\ NextImage(<<>>, <<Call("imread", CurrentImage, 0),
                         Call("detect", CurrentImage, 0)>>, TRUE)

ImageUnreadable ==
    /\ InImageLoop
    /\ ~image_paths[CurrentImage].readable
    /\ NextImage(<<>>, <<Call("imread", CurrentImage, 0)>>, FALSE)

DetectorRaises ==
    /\ InImageLoop
    /\ image_paths[CurrentImage].readable
    /\ image_paths[CurrentImage].detector = "raise"
    /\ NextImage(<<>>, <<Call("imread", CurrentImage, 0),
                         Call("detect", CurrentImage, 0)>>, TRUE)

NoFacesFound ==
    /\ InImageLoop
    /\ image_paths[CurrentImage].readable
    /\ image_paths[CurrentImage].detector = "ok"
    /\ image_paths[CurrentImage].faces = <<>>
    /\ NextImage(<<>>, <<Call("imread", CurrentImage, 0),
                         Call("detect", CurrentImage, 0)>>, FALSE)

PredictorRaises ==
    /\ InImageLoop
    /\ image_paths[CurrentImage].readable
    /\ image_paths[CurrentImage].detector = "ok"
    /\ image_paths[CurrentImage].faces # <<>>
    /\ image_paths[CurrentImage].predictor = "raise"
    /\ NextImage(<<>>, <<Call("imread", CurrentImage, 0),
                         Call("detect", CurrentImage, 0),
                         Call("predict", CurrentImage, 0)>>, TRUE)

FacesProcessed ==
    /\ InImageLoop
    /\ image_paths[CurrentImage].readable
    /\ image_paths[CurrentImage].detector = "ok"
    /\ image_paths[CurrentImage].faces # <<>>
    /\ image_paths[CurrentImage].predictor = "ok"
    /\ LET h == HandleFaces(CurrentImage, image_paths[CurrentImage].faces)
       IN  NextImage(h.obs,
                     <<Call("imread", CurrentImage, 0),
                       Call("detect", CurrentImage, 0),
                       Call("predict", CurrentImage, 0)>> \o h.calls,
                     h.raised)

----------------------------------------------------------------------------
(* process_thumbnails: the loops *)

NoReturn == [kind |-> "running", age |-> None, gender |-> None]
NoResult == [kind |-> "return", age |-> None, gender |-> None]

\* a slice one image short: image_paths[i:i+batch_size-1]
BatchPathsShort(paths, offset, size) ==
    [j \in 1..(Min(offset + size - 1, Len(paths)) - offset) |-> offset + j]

\* image_paths[i:i+batch_size], as the 1-based indices of its images
BatchPaths(paths, offset, size) ==
    [j \in 1..(Min(offset + size, Len(paths)) - offset) |-> offset + j]

StartEmpty ==
    /\ pc = "idle"
    /\ image_paths = <<>>
    /\ pc' = "done"
    /\ ret' = NoResult
    /\ UNCHANGED <<invocation, outcome, image_paths, username, batch_size, results, i, batch_paths,
                   k, all_face_data, features, labels, creator_indices, calls, caught>>

StartLoop ==
    /\ pc = "idle"
    /\ image_paths # <<>>
    /\ pc' = "batch"
    /\ i' = 0
    /\ all_face_data' = <<>>
    /\ UNCHANGED <<invocation, outcome, image_paths, username, batch_size, results, batch_paths, k,
                   features, labels, creator_indices, ret, calls, caught>>

NextBatch ==
    /\ pc = "batch"
    /\ i < Len(image_paths)
    /\ batch_paths' = BatchPaths(image_paths, i, batch_size)
    /\ k' = 0
    /\ pc' = "image"
    /\ UNCHANGED <<invocation, outcome, image_paths, username, batch_size, results, i,
                   all_face_data, features, labels, creator_indices, ret, calls, caught>>

\* a group loop that does not move on to the next offset
BatchEndStays ==
    /\ pc = "image"
    /\ k = Len(batch_paths)
    /\ i' = i
    /\ pc' = "batch"
    /\ UNCHANGED <<invocation, outcome, image_paths, username, batch_size, results, batch_paths, k,
                   all_face_data, features, labels, creator_indices, ret, calls, caught>>

\* identification run on what each group has accumulated
BatchEndIdentifies ==
    /\ pc = "image"
    /\ k = Len(batch_paths)
    /\ i' = i + batch_size
    /\ pc' = "batch"
    /\ calls' = Append(calls, Call("identify", 0, Len(all_face_data)))
    /\ UNCHANGED <<invocation, outcome, image_paths, username, batch_size, results, batch_paths, k,
                   all_face_data, features, labels, creator_indices, ret, caught>>

BatchEnd ==
    /\ pc = "image"
    /\ k = Len(batch_paths)
    /\ i' = i + batch_size
    /\ pc' = "batch"
    /\ UNCHANGED <<invocation, outcome, image_paths, username, batch_size, results, batch_paths, k,
                   all_face_data, features, labels, creator_indices, ret, calls, caught>>

LoopExit ==
    /\ pc = "batch"
    /\ i >= Len(image_paths)
    /\ pc' = "finish"
    /\ UNCHANGED <<invocation, outcome, image_paths, username, batch_size, results, i, batch_paths,
                   k, all_face_data, features, labels, creator_indices, ret, calls, caught>>

\* identification called without the test for an empty list: it raises
ReturnNoFacesIdentifies ==
    /\ pc = "finish"
    /\ all_face_data = <<>>
    /\ pc' = "done"
    /\ ret' = [kind |-> "raise", age |-> None, gender |-> None]
    /\ UNCHANGED <<invocation, outcome, image_paths, username, batch_size, results, i, batch_paths,
                   k, all_face_data, features, labels, creator_indices, calls, caught>>

ReturnNoFaces ==
    /\ pc = "finish"
    /\ all_face_data = <<>>
    /\ pc' = "done"
    /\ ret' = NoResult
    /\ UNCHANGED <<invocation, outcome, image_paths, username, batch_size, results, i, batch_paths,
                   k, all_face_data, features, labels, creator_indices, calls, caught>>

----------------------------------------------------------------------------
(* _identify_creator: features, reduction, clustering *)

\* A feature matrix: row r is the point rows[r] / scale.
\* cols is the number of columns; the columns themselves are abstracted by
\* the two coordinates of a point.
FeatureMatrix(faces) ==
    [scale |-> 1, cols |-> FeatureSide * FeatureSide,
     rows |-> [r \in 1..Len(faces) |-> faces[r].face_feature]]

\* no matrix yet
NoFeatures == [scale |-> 1, cols |-> 0, rows |-> <<>>]

RECURSIVE ColumnSum(_, _, _)
ColumnSum(rows, c, r) ==
    IF r = 0 THEN 0 ELSE rows[r][c] + ColumnSum(rows, c, r - 1)

PcaComponents(n) == Min(PcaMaxComponents, n - 1)

\* PCA(n_components).fit_transform: the rows are centred on their mean and
\* expressed in the principal axes.  Every component of the two-component
\* points is kept, so the transform is a rigid motion; the rotation changes no
\* distance and is left out.  row - mean = (n * row - sum) / n, held exactly.
PcaFitTransform(X) ==
    LET n == Len(X.rows)
    IN  [scale |-> X.scale * n,
         cols |-> PcaComponents(n),
         rows |-> [r \in 1..n |->
                    <<n * X.rows[r][1] - ColumnSum(X.rows, 1, n),
                      n * X.rows[r][2] - ColumnSum(X.rows, 2, n)>>]]

\* a reduction applied from ten rows on
ReduceFeaturesFromTen(X) ==
    IF Len(X.rows) >= PcaMinSamples THEN PcaFitTransform(X) ELSE X

ReduceFeatures(X) ==
    IF Len(X.rows) > PcaMinSamples THEN PcaFitTransform(X) ELSE X

\* squared Euclidean distance of two rows
DistSq(a, b) ==
    (a[1] - b[1]) * (a[1] - b[1]) + (a[2] - b[2]) * (a[2] - b[2])

\* a clusterer built without eps (scikit-learn's default radius, 0.5)
NeighborhoodDefaultEps(X, p) ==
    { q \in 1..Len(X.rows) :
        4 * DistSq(X.rows[p], X.rows[q]) <= X.scale * X.scale }

\* a neighbourhood that leaves out the rows at exactly Eps
NeighborhoodStrict(X, p) ==
    { q \in 1..Len(X.rows) :
        DistSq(X.rows[p], X.rows[q]) < Eps * Eps * X.scale * X.scale }

\* radius_neighbors: the rows within Eps of row p, p itself included
Neighborhood(X, p) ==
    { q \in 1..Len(X.rows) :
        DistSq(X.rows[p], X.rows[q]) <= (Eps * X.scale) * (Eps * X.scale) }

\* a clusterer built without min_samples (scikit-learn's default, 5)
IsCoreDefaultMinSamples(neighb) == Cardinality(neighb) >= 5

\* core_samples: the rows with at least MinSamples rows in their neighbourhood
IsCore(neighb) == Cardinality(neighb) >= MinSamples

\* the neighbours still unlabelled are pushed on the stack
RECURSIVE PushUnlabelled(_, _, _, _)
PushUnlabelled(stack, lbls, neighb, v) ==
    IF v > Len(lbls) THEN stack
    ELSE PushUnlabelled(
             IF v \in neighb /\ lbls[v] = NoiseLabel THEN Append(stack, v) ELSE stack,
             lbls, neighb, v + 1)

\* dbscan_inner's depth-first growth of cluster label_num from point p
RECURSIVE ExpandCluster(_, _, _, _, _)
ExpandCluster(neighborhoods, lbls, stack, p, label_num) ==
    LET fresh == lbls[p] = NoiseLabel
        lbls1 == IF fresh THEN [lbls EXCEPT ![p] = label_num] ELSE lbls
        stack1 == IF fresh /\ IsCore(neighborhoods[p])
                  THEN PushUnlabelled(stack, lbls1, neighborhoods[p], 1)
                  ELSE stack
    IN  IF stack1 = <<>> THEN lbls1
        ELSE ExpandCluster(neighborhoods, lbls1, SubSeq(stack1, 1, Len(stack1) - 1),
                           stack1[Len(stack1)], label_num)

RECURSIVE DbscanInner(_, _, _, _)
DbscanInner(neighborhoods, lbls, p, label_num) ==
    IF p > Len(lbls) THEN lbls
    ELSE IF lbls[p] # NoiseLabel \/ ~IsCore(neighborhoods[p])
    THEN DbscanInner(neighborhoods, lbls, p + 1, label_num)
    ELSE DbscanInner(neighborhoods,
                     ExpandCluster(neighborhoods, lbls, <<>>, p, label_num),
                     p + 1, label_num + 1)

\* DBSCAN(eps=20, min_samples=1).fit(features).labels_
DbscanLabels(X) ==
    DbscanInner([p \in 1..Len(X.rows) |-> Neighborhood(X, p)],
                [p \in 1..Len(X.rows) |-> NoiseLabel], 1, 0)

----------------------------------------------------------------------------
(* _identify_creator: the dominant cluster and its attributes *)

Count(seq, x) == Cardinality({ p \in DOMAIN seq : seq[p] = x })

\* the keys of Counter(seq), in the order of their first insertion
RECURSIVE CounterKeys(_, _, _)
CounterKeys(seq, p, keys) ==
    IF p > Len(seq) THEN keys
    ELSE CounterKeys(seq, p + 1,
                     IF \E j \in DOMAIN keys : keys[j] = seq[p]
                     THEN keys ELSE Append(keys, seq[p]))

\* a maximum that lets a later key of equal count replace the best
RECURSIVE MaxByCountLast(_, _, _, _)
MaxByCountLast(seq, keys, j, best) ==
    IF j > Len(keys) THEN best
    ELSE MaxByCountLast(seq, keys, j + 1,
                        IF Count(seq, keys[j]) >= Count(seq, best) THEN keys[j] ELSE best)

\* max(items, key=count): a later key replaces the best only with a
\* strictly larger count
RECURSIVE MaxByCount(_, _, _, _)
MaxByCount(seq, keys, j, best) ==
    IF j > Len(keys) THEN best
    ELSE MaxByCount(seq, keys, j + 1,
                    IF Count(seq, keys[j]) > Count(seq, best) THEN keys[j] ELSE best)

\* the first key taken for the most common one
MostCommonFirstKey(seq) == seq[1]

\* the count of the most common key taken for the key: most_common(1)[0][1]
MostCommonCount(seq) ==
    LET keys == CounterKeys(seq, 1, <<>>)
    IN  Count(seq, MaxByCount(seq, keys, 2, keys[1]))

\* Counter(seq).most_common(1)[0][0], seq not empty
MostCommon(seq) ==
    LET keys == CounterKeys(seq, 1, <<>>)
    IN  MaxByCount(seq, keys, 2, keys[1])

\* the members of the cluster numbered 0, whatever label is wanted
RECURSIVE IndicesOfLabelZero(_, _, _)
IndicesOfLabelZero(lbls, wanted, p) ==
    IF p > Len(lbls) THEN <<>>
    ELSE (IF lbls[p] = 0 THEN <<p>> ELSE <<>>) \o IndicesOfLabelZero(lbls, wanted, p + 1)

\* [i for i, label in enumerate(labels) if label == wanted], 1-based
RECURSIVE IndicesOf(_, _, _)
IndicesOf(lbls, wanted, p) ==
    IF p > Len(lbls) THEN <<>>
    ELSE (IF lbls[p] = wanted THEN <<p>> ELSE <<>>) \o IndicesOf(lbls, wanted, p + 1)

\* the ages of every observation summed, whatever the indices
RECURSIVE SumAgesAll(_, _, _)
SumAgesAll(faces, indices, j) ==
    IF j > Len(faces) THEN 0
    ELSE faces[j].age[1] + SumAgesAll(faces, indices, j + 1)

RECURSIVE SumAges(_, _, _)
SumAges(faces, indices, j) ==
    IF j > Len(indices) THEN 0
    ELSE faces[indices[j]].age[1] + SumAges(faces, indices, j + 1)

\* round(num / den, 1) in tenths, round-half-even
Round1(num, den) ==
    LET t == (10 * num) \div den
        rem == 10 * num - t * den
    IN  IF 2 * rem > den THEN t + 1
        ELSE IF 2 * rem = den /\ t % 2 = 1 THEN t + 1
        ELSE t

RECURSIVE SumTotalFaces(_, _)
SumTotalFaces(recs, j) ==
    IF j > Len(recs) THEN 0 ELSE recs[j].total_faces + SumTotalFaces(recs, j + 1)

\* The record of one account appended to self.results; ages are kept in
\* tenths, as round(avg_age, 1) leaves them.
StoredResultCountsClusters(user, faces, lbls, indices, total, gender) ==
    [username |-> user,
     age |-> Round1(total, Len(indices)),
     gender |-> gender,
     appearances |-> Cardinality({ lbls[p] : p \in DOMAIN lbls }),
     total_faces |-> Len(faces)]

\* a record whose total_faces runs on over the records already stored
StoredResultRunningTotal(user, faces, lbls, indices, total, gender) ==
    [username |-> user,
     age |-> Round1(total, Len(indices)),
     gender |-> gender,
     appearances |-> Len(indices),
     total_faces |-> SumTotalFaces(results, 1) + Len(faces)]

StoredResultTotalIsCluster(user, faces, lbls, indices, total, gender) ==
    [username |-> user,
     age |-> Round1(total, Len(indices)),
     gender |-> gender,
     appearances |-> Len(indices),
     total_faces |-> Len(indices)]

StoredResult(user, faces, lbls, indices, total, gender) ==
    [username |-> user,
     age |-> Round1(total, Len(indices)),
     gender |-> gender,
     appearances |-> Len(indices),
     total_faces |-> Len(faces)]

\* _identify_creator from the cluster labels on: the dominant cluster, the
\* age and gender of its members, the record stored and the value returned
\* (or the exception raised by the division when no index is selected).
SelectAndAggregate(faces, lbls, user) ==
    LET most_common_label == MostCommon(lbls)
        indices == IndicesOf(lbls, most_common_label, 1)
        genders == [j \in 1..Len(indices) |-> faces[indices[j]].gender[1]]
        total == SumAges(faces, indices, 1)
    IN  IF indices = <<>>
        THEN [labels |-> lbls, creator_indices |-> indices, stored |-> <<>>,
              ret |-> [kind |-> "raise", age |-> None, gender |-> None]]
        ELSE [labels |-> lbls, creator_indices |-> indices,
              stored |-> <<StoredResult(user, faces, lbls, indices, total,
                                        MostCommon(genders))>>,
              ret |-> [kind |-> "return",
                       age |-> Some([num |-> total, den |-> Len(indices)]),
                       gender |-> Some(MostCommon(genders))]]

\* The call _identify_creator(faces, user): what it computes, the record it
\* stores, and what it returns or raises.
IdentifyCreator(faces, user) ==
    SelectAndAggregate(faces, DbscanLabels(ReduceFeatures(FeatureMatrix(faces))), user)

IdentifyAndReturn ==
    /\ pc = "finish"
    /\ all_face_data # <<>>
    /\ features' = ReduceFeatures(FeatureMatrix(all_face_data))
    /\ \E r \in {IdentifyCreator(all_face_data, username)} :
           /\ labels' = r.labels
           /\ creator_indices' = r.creator_indices
           /\ results' = results \o r.stored
           /\ ret' = r.ret
    /\ calls' = Append(calls, Call("identify", 0, Len(all_face_data)))
    /\ pc' = "done"
    /\ UNCHANGED <<invocation, outcome, image_paths, username, batch_size, i, batch_paths, k,
                   all_face_data, caught>>

----------------------------------------------------------------------------

Init ==
    /\ image_paths \in ImageLists
    /\ username \in Usernames
    /\ batch_size \in BatchSizes
    /\ results = <<>>
    /\ pc = "idle"
    /\ i = 0
    /\ batch_paths = <<>>
    /\ k = 0
    /\ all_face_data = <<>>
    /\ features = NoFeatures
    /\ labels = <<>>
    /\ creator_indices = <<>>
    /\ ret = NoReturn
    /\ calls = <<>>
    /\ caught = {}
    /\ invocation = NoInvocation
    /\ outcome = NoOutcome

Next ==
    \/ StartEmpty
    \/ StartLoop
    \/ NextBatch
    \/ ImageUnreadable
    \/ DetectorRaises
    \/ NoFacesFound
    \/ PredictorRaises
    \/ FacesProcessed
    \/ BatchEnd
    \/ LoopExit
    \/ ReturnNoFaces
    \/ IdentifyAndReturn

Spec == Init /\ [][Next]_vars

\* the steps of the loops of process_thumbnails
LoopNext ==
    \/ StartEmpty
    \/ StartLoop
    \/ NextBatch
    \/ ImageUnreadable
    \/ DetectorRaises
    \/ NoFacesFound
    \/ PredictorRaises
    \/ FacesProcessed
    \/ BatchEnd
    \/ LoopExit

\* the step after the loops, ReturnNoFaces or IdentifyAndReturn, as pc shows it
FinishStep == pc = "finish" /\ pc' = "done"

\* process_thumbnails is one sequential computation: while a step is
\* possible, one is taken.
SpecFair == Spec /\ WF_vars(LoopNext) /\ WF_pc(FinishStep)

\* The state process_thumbnails is in when its loops end after a list of
\* images of one usable face each, taken one image per group.
RECURSIVE OneFaceCalls(_)
OneFaceCalls(n) ==
    IF n = 0 THEN <<>>
    ELSE OneFaceCalls(n - 1) \o
         <<Call("imread", n, 0), Call("detect", n, 0), Call("predict", n, 0),
           Call("resize", n, 1)>>

\* process_thumbnails at the end of its loops, after one image for each of
\* the faces
AtIdentification(faces) ==
    /\ image_paths = [r \in 1..Len(faces) |-> FacesImage(<<faces[r]>>)]
    /\ all_face_data = [r \in 1..Len(faces) |-> Observation(r, 1, faces[r])]
    /\ username \in Usernames
    /\ batch_size = 1
    /\ results = <<>>
    /\ pc = "finish"
    /\ i = Len(image_paths)
    /\ batch_paths = <<Len(image_paths)>>
    /\ k = 1
    /\ features = NoFeatures
    /\ labels = <<>>
    /\ creator_indices = <<>>
    /\ ret = NoReturn
    /\ calls = OneFaceCalls(Len(image_paths))
    /\ caught = {}
    /\ invocation = NoInvocation
    /\ outcome = NoOutcome

InitIdentify == \E faces \in FaceLists : AtIdentification(faces)

NextIdentify == IdentifyAndReturn

SpecIdentify == InitIdentify /\ [][NextIdentify]_vars

\* the states InitIdentify starts from are states of process_thumbnails
InitIdentifyReachable ==
    (pc = "finish" /\ batch_size = 1 /\ caught = {} /\ all_face_data # <<>>
       /\ \A r \in DOMAIN image_paths : Len(image_paths[r].faces) = 1)
    => /\ i = Len(image_paths)
       /\ batch_paths = <<Len(image_paths)>>
       /\ k = 1
       /\ calls = OneFaceCalls(Len(image_paths))
       /\ all_face_data =
            [r \in 1..Len(image_paths) |-> Observation(r, 1, image_paths[r].faces[1])]


----------------------------------------------------------------------------
(* _identify_creator on the lists its estimate is specified for *)

\* faces of either (age, gender) pair at three points: two close, one far
EstimateFaces ==
    { Face(p, Some(a[1]), Some(a[2]), "ok") :
        p \in {P0, P1, P3}, a \in {<<30, "male">>, <<50, "female">>} }

\* lists whose features are all the same point: m faces of one pair, then
\* faces of the other pair, up to MaxSame faces
SameFeatureLists ==
    { [r \in 1..n |-> IF r <= m THEN Face(p, Some(30), Some("male"), "ok")
                                 ELSE Face(p, Some(50), Some("female"), "ok")] :
        n \in 1..MaxSame, m \in 0..MaxSame, p \in {P0, P1, P2, P3, P4} }

\* three faces of one man (ages 30, 32, 34) at points pairwise within Eps
\* and one face of a woman (age 50) far from them, in every order
ScenarioLists ==
    { [r \in 1..4 |->
          <<Face(t[1], Some(30), Some("male"), "ok"),
            Face(t[2], Some(32), Some("male"), "ok"),
            Face(t[3], Some(34), Some("male"), "ok"),
            Face(o, Some(50), Some("female"), "ok")>>[f[r]]] :
        t \in {P0, P5, P1} \X {P0, P5, P1} \X {P0, P5, P1},
        o \in {P3, P4},
        f \in Permutations(1..4) }

\* lists of up to MaxSame faces at two points: m faces at p, the others at q
TwoPointLists ==
    { [r \in 1..n |-> IF r <= m THEN Face(p, Some(30), Some("male"), "ok")
                                 ELSE Face(q, Some(50), Some("female"), "ok")] :
        n \in 1..MaxSame, m \in 0..MaxSame, p \in {P0, P1, P3}, q \in {P0, P2, P4} }

EstimateLists ==
    (SeqsUpTo(EstimateFaces, MaxObs) \ {<<>>}) \cup SameFeatureLists
        \cup ScenarioLists \cup TwoPointLists

InitEstimate == \E faces \in EstimateLists : AtIdentification(faces)

NextEstimate == IdentifyAndReturn

SpecEstimate == InitEstimate /\ [][NextEstimate]_vars

----------------------------------------------------------------------------
(* One analyzer used for several accounts in turn *)

AccountNames == {"a", "b"}

AccountImageKinds ==
    { Image(FALSE, "ok", "ok", <<>>),
      Image(TRUE, "raise", "ok", <<>>),
      Image(TRUE, "ok", "raise", <<FaceA>>),
      FacesImage(<<>>),
      FacesImage(<<FaceA>>),
      FacesImage(<<FaceB, FaceC>>) }

AccountImageLists == SeqsUpTo(AccountImageKinds, MaxAccountImages)

InitAccounts ==
    /\ image_paths \in AccountImageLists
    /\ username \in AccountNames
    /\ batch_size \in BatchSizes
    /\ results = <<>>
    /\ pc = "idle"
    /\ i = 0
    /\ batch_paths = <<>>
    /\ k = 0
    /\ all_face_data = <<>>
    /\ features = NoFeatures
    /\ labels = <<>>
    /\ creator_indices = <<>>
    /\ ret = NoReturn
    /\ calls = <<>>
    /\ caught = {}
    /\ invocation = NoInvocation
    /\ outcome = NoOutcome

\* The caller takes the value returned and calls process_thumbnails of the
\* same analyzer for the next account: a new frame, the same self.
ProcessNextAccount ==
    /\ pc = "done"
    /\ Len(results) < MaxAccounts
    /\ image_paths' \in AccountImageLists
    /\ username' \in AccountNames
    /\ pc' = "idle"
    /\ i' = 0
    /\ batch_paths' = <<>>
    /\ k' = 0
    /\ all_face_data' = <<>>
    /\ features' = NoFeatures
    /\ labels' = <<>>
    /\ creator_indices' = <<>>
    /\ ret' = NoReturn
    /\ calls' = <<>>
    /\ caught' = {}
    /\ UNCHANGED <<batch_size, results, invocation, outcome>>

NextAccounts ==
    \/ Next
    \/ ProcessNextAccount

SpecAccounts == InitAccounts /\ [][NextAccounts]_vars

----------------------------------------------------------------------------
(* The functions around the analyzer.  Each is computed from what its
   calls to the outside meet, and leaves the history of what it did. *)

analyzer_vars ==
    <<image_paths, username, batch_size, results, pc, i, batch_paths, k,
      all_face_data, features, labels, creator_indices, ret, calls, caught>>

\* an analyzer that has been constructed and not yet used
AnalyzerAtRest ==
    /\ image_paths = <<>>
    /\ username \in Usernames
    /\ batch_size = 1
    /\ results = <<>>
    /\ pc = "idle"
    /\ i = 0
    /\ batch_paths = <<>>
    /\ k = 0
    /\ all_face_data = <<>>
    /\ features = NoFeatures
    /\ labels = <<>>
    /\ creator_indices = <<>>
    /\ ret = NoReturn
    /\ calls = <<>>
    /\ caught = {}

Event(op, n) == [op |-> op, n |-> n]

Returned(value, events) == [kind |-> "return", value |-> value, events |-> events]

Raised(exc, events) == [kind |-> "raise", value |-> exc, events |-> events]

----------------------------------------------------------------------------
(* helpers.download_file *)

\* What one requests.get meets: get is "raise" when the request or
\* raise_for_status raises a RequestException; content_length is the header
\* as a number (0 when absent); open is "raise" when the file cannot be
\* written (IOError); chunks are the lengths of the chunks of the body.
Response(get, content_length, open, chunks) ==
    [get |-> get, content_length |-> content_length, open |-> open,
     chunks |-> chunks]

DownloadResponses ==
    { Response("raise", 0, "ok", <<>>),
      Response("ok", 0, "ok", <<100>>),
      Response("ok", 20000, "ok", <<8192, 0, 8192, 3616>>),
      Response("ok", 20000, "raise", <<8192, 8192, 3616>>),
      Response("ok", 5, "ok", <<5>>),
      Response("ok", 5, "ok", <<>>) }

\* the loop over iter_content: an empty chunk is passed over; for the others
\* the progress test divides by total_size // 10 whenever total_size > 0
RECURSIVE WriteChunks(_, _, _)
WriteChunks(chunks, total_size, c) ==
    IF c > Len(chunks) THEN "complete"
    ELSE IF chunks[c] = 0 THEN WriteChunks(chunks, total_size, c + 1)
    ELSE IF total_size > 0 /\ total_size \div 10 = 0 THEN "ZeroDivisionError"
    ELSE WriteChunks(chunks, total_size, c + 1)

\* the body of the try: "complete", "caught" (a RequestException or an
\* IOError, which the except clause takes) or the exception it does not take
Attempt(resp) ==
    IF resp.get = "raise" THEN "caught"
    ELSE IF resp.open = "raise" THEN "caught"
    ELSE WriteChunks(resp.chunks, resp.content_length, 1)

RECURSIVE DownloadAttempts(_, _, _, _)
DownloadAttempts(resps, attempt, retry_delay, events) ==
    IF attempt >= DownloadMaxRetries THEN Returned(None, events)
    ELSE LET got == Append(events, Event("get", attempt))
             end == Attempt(resps[attempt + 1])
         IN  IF end = "complete" THEN Returned(TRUE, got)
             ELSE IF end # "caught" THEN Raised(end, got)
             ELSE IF attempt < DownloadMaxRetries - 1
             THEN DownloadAttempts(resps, attempt + 1, retry_delay * 2,
                                   Append(got, Event("sleep", retry_delay)))
             ELSE Returned(FALSE, got)

DownloadFile(resps) == DownloadAttempts(resps, 0, DownloadRetryDelay, <<>>)

InitDownload ==
    /\ AnalyzerAtRest
    /\ invocation \in { [fn |-> "download_file", responses |-> r] :
                           r \in [1..DownloadMaxRetries -> DownloadResponses] }
    /\ outcome = NoOutcome

CallDownloadFile ==
    /\ invocation.fn = "download_file"
    /\ outcome = NoOutcome
    /\ outcome' = DownloadFile(invocation.responses)
    /\ UNCHANGED <<analyzer_vars, invocation>>

NextDownload == CallDownloadFile

SpecDownload == InitDownload /\ [][NextDownload]_vars

----------------------------------------------------------------------------
(* helpers.retry_with_backoff: the wrapper around a function *)

\* the arguments of the decorator factory
RetryParams ==
    [max_retries : 0..MaxRetries, initial_delay : {0, 1, 5},
     max_delay : {3, 60}, backoff_factor : 0..3]

\* how one invocation of the wrapped function ends: it returns a value, it
\* raises an exception of one of the types in `exceptions`, or another one
FuncEnds == {"value", "listed", "unlisted"}

RECURSIVE RetryAttempts(_, _, _, _, _)
RetryAttempts(p, ends, attempt, delay, events) ==
    IF attempt >= p.max_retries + 1 THEN Returned(None, events)
    ELSE LET called == Append(events, Event("call", attempt))
             end == ends[attempt + 1]
         IN  IF end = "value" THEN Returned(<<end, attempt>>, called)
             ELSE IF end = "unlisted" THEN Raised(<<end, attempt>>, called)
             ELSE IF attempt = p.max_retries THEN Raised(<<end, attempt>>, called)
             ELSE LET wait_time == Min(delay, p.max_delay)
                  IN  RetryAttempts(p, ends, attempt + 1,
                                    Min(delay * p.backoff_factor, p.max_delay),
                                    Append(called, Event("sleep", wait_time)))

RetryFromDouble(p, ends) == RetryAttempts(p, ends, 0, p.initial_delay * 2, <<>>)

Wrapper(p, ends) == RetryAttempts(p, ends, 0, p.initial_delay, <<>>)

InitRetry ==
    /\ AnalyzerAtRest
    /\ invocation \in { [fn |-> "wrapper", params |-> p, ends |-> e] :
                           p \in RetryParams,
                           e \in [1..(MaxRetries + 1) -> FuncEnds] }
    /\ outcome = NoOutcome

CallWrapper ==
    /\ invocation.fn = "wrapper"
    /\ outcome = NoOutcome
    /\ outcome' = Wrapper(invocation.params, invocation.ends)
    /\ UNCHANGED <<analyzer_vars, invocation>>

NextRetry == CallWrapper

SpecRetry == InitRetry /\ [][NextRetry]_vars

----------------------------------------------------------------------------
(* TikTokScraper.scrape_user_thumbnails, wrapped by retry_with_backoff *)

\* the decorator's arguments at the scraper: MAX_RETRIES and RETRY_DELAY of
\* the settings, the rest by default
ScraperRetry ==
    [max_retries |-> 3, initial_delay |-> 5, max_delay |-> 60,
     backoff_factor |-> 2]

\* A dataset item has no cover URL, or its download returns True, returns
\* False, or raises.
ItemKinds == {"no_cover", "true", "false", "raise"}

\* What one execution of the body meets: the Actor call raises, returns
\* nothing, or returns a run whose dataset has the given items; fail_at = j
\* says that fetching item j from the dataset raises (0: never).
ActorRuns(max_items) ==
    { [call |-> c, items |-> <<>>, fail_at |-> 0] : c \in {"raise", "none"} }
    \cup { [call |-> "ok", items |-> it, fail_at |-> f] :
              it \in SeqsUpTo(ItemKinds, max_items), f \in 0..(max_items + 1) }

\* executions that end in an exception, for the attempts before the last one
FailingRuns ==
    { [call |-> "raise", items |-> <<>>, fail_at |-> 0],
      [call |-> "ok", items |-> <<"true", "true">>, fail_at |-> 3] }

ThumbnailPath(user, n) == [dir |-> user, thumbnail |-> n]

DownloadCall(item, path) == [op |-> "download_file", item |-> item, path |-> path]

ReachedLimitAfter(thumbnail_count, limit) == thumbnail_count > limit

ReachedLimit(thumbnail_count, limit) == thumbnail_count >= limit

RECURSIVE ScrapeItems(_, _, _, _, _, _, _)
ScrapeItems(user, limit, run, j, downloaded_paths, thumbnail_count, events) ==
    IF run.fail_at = j THEN Raised("listed", events)
    ELSE IF j > Len(run.items) THEN Returned(downloaded_paths, events)
    ELSE IF ReachedLimit(thumbnail_count, limit)
    THEN Returned(downloaded_paths, events)
    ELSE IF run.items[j] = "no_cover"
    THEN ScrapeItems(user, limit, run, j + 1, downloaded_paths,
                     thumbnail_count, events)
    ELSE LET thumbnail_path == ThumbnailPath(user, thumbnail_count + 1)
             called == Append(events, DownloadCall(j, thumbnail_path))
         IN  IF run.items[j] = "true"
             THEN ScrapeItems(user, limit, run, j + 1,
                              Append(downloaded_paths, thumbnail_path),
                              thumbnail_count + 1, called)
             ELSE ScrapeItems(user, limit, run, j + 1, downloaded_paths,
                              thumbnail_count, called)

\* one execution of the function's body
ScrapeBody(user, limit, run) ==
    IF run.call = "raise" THEN Raised("listed", <<>>)
    ELSE IF run.call = "none" THEN Returned(<<>>, <<>>)
    ELSE ScrapeItems(user, limit, run, 1, <<>>, 0, <<>>)

\* the decorated function: the wrapper runs the body anew at each attempt;
\* bodies keeps what each attempt did
ScrapeUserThumbnails(user, limit, runs) ==
    LET body == [a \in DOMAIN runs |-> ScrapeBody(user, limit, runs[a])]
        ends == [a \in DOMAIN runs |->
                    IF body[a].kind = "return" THEN "value" ELSE "listed"]
        w == Wrapper(ScraperRetry, ends)
        n == w.value[2] + 1
    IN  [kind |-> w.kind,
         value |-> IF w.kind = "return" THEN body[n].value ELSE w.value,
         events |-> w.events,
         bodies |-> SubSeq(body, 1, n)]

\* the attempts of one call: some failing executions, then any execution,
\* then executions whose Actor call raises
ScrapeRuns(max_items) ==
    { [a \in 1..(ScraperRetry.max_retries + 1) |->
          IF a <= Len(pre) THEN pre[a]
          ELSE IF a = Len(pre) + 1 THEN last
          ELSE [call |-> "raise", items |-> <<>>, fail_at |-> 0]] :
      pre \in SeqsUpTo(FailingRuns, ScraperRetry.max_retries),
      last \in ActorRuns(max_items) }

InitScrape ==
    /\ AnalyzerAtRest
    /\ invocation \in { [fn |-> "scrape_user_thumbnails", username |-> username,
                         limit |-> l, runs |-> r] :
                           l \in 0..MaxLimit, r \in ScrapeRuns(MaxItems) }
    /\ outcome = NoOutcome

CallScrapeUserThumbnails ==
    /\ invocation.fn = "scrape_user_thumbnails"
    /\ outcome = NoOutcome
    /\ outcome' = ScrapeUserThumbnails(invocation.username, invocation.limit,
                                       invocation.runs)
    /\ UNCHANGED <<analyzer_vars, invocation>>

NextScrape == CallScrapeUserThumbnails

SpecScrape == InitScrape /\ [][NextScrape]_vars

----------------------------------------------------------------------------
(* OptimizedMiVOLOAnalyzer.get_results and clear_results *)

\* records as _identify_creator stores them (the age in tenths)
StoredRecords ==
    { [username |-> "a", age |-> 255, gender |-> "male",
       appearances |-> 2, total_faces |-> 3],
      [username |-> "b", age |-> 321, gender |-> "female",
       appearances |-> 1, total_faces |-> 1] }

\* the analyzer's state apart from the stored records
analyzer_rest ==
    <<image_paths, username, batch_size, pc, i, batch_paths, k,
      all_face_data, features, labels, creator_indices, ret, calls, caught>>

\* the calls made so far, each with the value it returned
CallsSoFar == IF outcome = NoOutcome THEN <<>> ELSE outcome.events

\* an analyzer between two runs, holding the records of earlier runs (none
\* when it has just been constructed); before keeps its state
InitResults ==
    /\ image_paths = <<>>
    /\ username \in Usernames
    /\ batch_size \in BatchSizes
    /\ results \in SeqsUpTo(StoredRecords, MaxStored)
    /\ pc = "idle"
    /\ i = 0
    /\ batch_paths = <<>>
    /\ k = 0
    /\ all_face_data = <<>>
    /\ features = NoFeatures
    /\ labels = <<>>
    /\ creator_indices = <<>>
    /\ ret = NoReturn
    /\ calls = <<>>
    /\ caught = {}
    /\ invocation = [fn |-> "results", stored |-> results, rest |-> analyzer_rest]
    /\ outcome = NoOutcome

GetResults ==
    /\ invocation.fn = "results"
    /\ Len(CallsSoFar) < MaxCalls
    /\ outcome' = Returned(results, Append(CallsSoFar, Event("get_results", results)))
    /\ UNCHANGED <<analyzer_vars, invocation>>

ClearResultsKeeps ==
    /\ invocation.fn = "results"
    /\ Len(CallsSoFar) < MaxCalls
    /\ outcome' = Returned(None, Append(CallsSoFar, Event("clear_results", None)))
    /\ UNCHANGED <<analyzer_vars, invocation>>

ClearResults ==
    /\ invocation.fn = "results"
    /\ Len(CallsSoFar) < MaxCalls
    /\ results' = <<>>
    /\ outcome' = Returned(None, Append(CallsSoFar, Event("clear_results", None)))
    /\ UNCHANGED <<analyzer_rest, invocation>>

NextResults ==
    \/ GetResults
    \/ ClearResults

SpecResults == InitResults /\ [][NextResults]_vars

----------------------------------------------------------------------------
(* TikTokAnalyzerApp.process_username *)

\* what scrape_user_thumbnails gives process_username: it raises (after its
\* retries), returns no path, or returns some paths
ScrapeEnds == {"raise", "empty", "paths"}

\* what process_thumbnails gives: it raises, returns (None, None), or
\* returns the mean age (a fraction) and the gender of the creator
AnalyzerEnds ==
    { [kind |-> "raise", age |-> None, gender |-> None],
      NoResult,
      [kind |-> "return", age |-> Some([num |-> 96, den |-> 3]),
       gender |-> Some("female")],
      [kind |-> "return", age |-> Some([num |-> 77, den |-> 3]),
       gender |-> Some("male")] }

\* What one call of process_username meets: the ends of the scraper and of
\* the analyzer, whether the output directory can be made, whether
\* write_csv wrote the file (it returns False on any error), and how
\* upload_to_s3 ends: it returns True, returns False on a ClientError, or
\* raises any other exception of the upload.
Courses ==
    [scrape : ScrapeEnds, analysis : AnalyzerEnds, mkdir : {"ok", "raise"},
     write_csv : BOOLEAN, upload : {"true", "false", "raise"}]

ResultPath(user) == [dir |-> user, name |-> "result.csv"]

WriteCsv(path, written) == [op |-> "write_csv", path |-> path, written |-> written]

\* the record process_thumbnails has appended to the analyzer's results
\* when it returned an estimate
StoredBy(user, analysis) ==
    IF analysis.kind = "return" /\ analysis.age # None
    THEN <<[username |-> user,
            age |-> Round1(analysis.age[1].num, analysis.age[1].den),
            gender |-> analysis.gender[1],
            appearances |-> analysis.age[1].den,
            total_faces |-> analysis.age[1].den]>>
    ELSE <<>>

\* the except clause of process_username: the error is logged and counted,
\* and None is returned
Failed(events, stored) ==
    [kind |-> "return", value |-> None,
     events |-> Append(events, Event("report_metric", "ErrorCount")),
     stored |-> stored]

Ended(value, events, stored) ==
    [kind |-> "return", value |-> value, events |-> events, stored |-> stored]

ProcessUsername(user, use_cloud, c) ==
    LET scraped == <<Event("scrape_user_thumbnails", user)>>
        analyzed == Append(scraped, Event("process_thumbnails", user))
        stored == StoredBy(user, c.analysis)
        written == Append(analyzed, WriteCsv(ResultPath(user), c.write_csv))
        uploaded == Append(written, Event("upload_to_s3", user))
    IN  IF c.scrape = "raise" THEN Failed(scraped, <<>>)
        ELSE IF c.scrape = "empty" THEN Ended(None, scraped, <<>>)
        ELSE IF c.analysis.kind = "raise" THEN Failed(analyzed, <<>>)
        ELSE IF c.analysis.age = None \/ c.analysis.gender = None
        THEN Ended(None, analyzed, stored)
        ELSE LET result == [username |-> user,
                            age |-> Round1(c.analysis.age[1].num,
                                           c.analysis.age[1].den),
                            gender |-> c.analysis.gender[1]]
             IN  IF c.mkdir = "raise" THEN Failed(analyzed, stored)
                 ELSE IF ~use_cloud THEN Ended(Some(result), written, stored)
                 ELSE IF c.upload = "raise" THEN Failed(uploaded, stored)
                 ELSE Ended(Some(result), uploaded, stored)

InitUsername ==
    /\ AnalyzerAtRest
    /\ invocation \in { [fn |-> "process_username", username |-> u,
                         use_cloud |-> cloud, course |-> c] :
                           u \in AccountNames, cloud \in BOOLEAN, c \in Courses }
    /\ outcome = NoOutcome

CallProcessUsername ==
    /\ invocation.fn = "process_username"
    /\ outcome = NoOutcome
    /\ outcome' = ProcessUsername(invocation.username, invocation.use_cloud,
                                  invocation.course)
    /\ results' = results \o outcome'.stored
    /\ UNCHANGED <<analyzer_rest, invocation>>

NextUsername == CallProcessUsername

SpecUsername == InitUsername /\ [][NextUsername]_vars

----------------------------------------------------------------------------
(* TikTokAnalyzerApp.process_file *)

Estimate == [kind |-> "return", age |-> Some([num |-> 77, den |-> 3]),
             gender |-> Some("male")]

Course(scrape, analysis, upload) ==
    [scrape |-> scrape, analysis |-> analysis, mkdir |-> "ok",
     write_csv |-> TRUE, upload |-> upload]

\* the courses of process_username tried within process_file and
\* process_queue: the scraper fails or finds nothing, the analyzer finds no
\* creator, the result is saved, or its upload raises
RowCourses ==
    { Course("raise", NoResult, "true"),
      Course("empty", NoResult, "true"),
      Course("paths", NoResult, "true"),
      Course("paths", Estimate, "true"),
      Course("paths", Estimate, "raise") }

\* the rows of an input file: a username and what its processing meets
FileRows(max_rows) ==
    SeqsUpTo([username : AccountNames, course : RowCourses], max_rows)

\* What process_file meets: reading the input fails ("missing": no such
\* file; "unreadable": read_csv raises or there is no username column) or
\* gives the rows; write_csv and upload_to_s3 of the combined results end
\* as in process_username.
InputFiles(max_rows) ==
    { [use_cloud |-> cloud, read |-> r, rows |-> <<>>, write_csv |-> TRUE,
       upload |-> "true"] : cloud \in BOOLEAN, r \in {"missing", "unreadable"} }
    \cup { [use_cloud |-> FALSE, read |-> "ok", rows |-> rows, write_csv |-> w,
            upload |-> "true"] : rows \in FileRows(max_rows), w \in BOOLEAN }
    \cup { [use_cloud |-> TRUE, read |-> "ok", rows |-> rows, write_csv |-> TRUE,
            upload |-> u] : rows \in FileRows(max_rows), u \in {"true", "false", "raise"} }

\* the loop over the usernames: one call of process_username each, its
\* result kept when it is not None, a pause of 1 s between two usernames
RECURSIVE ProcessRows(_, _, _, _, _)
ProcessRows(file, j, results_list, events, stored) ==
    IF j > Len(file.rows) THEN Ended(results_list, events, stored)
    ELSE LET row == file.rows[j]
             result == ProcessUsername(row.username, file.use_cloud, row.course)
             called == Append(events, Event("process_username", j))
             paused == IF j < Len(file.rows)
                       THEN Append(called, Event("sleep", 1)) ELSE called
         IN  ProcessRows(file, j + 1,
                         IF result.value # None
                         THEN Append(results_list, result.value[1])
                         ELSE results_list,
                         paused, stored \o result.stored)

\* the except clause of process_file: the error is logged and counted, and
\* the empty list is returned
FileFailed(events, stored) == [Failed(events, stored) EXCEPT !.value = <<>>]

ProcessFile(file) ==
    IF file.read # "ok" THEN FileFailed(<<>>, <<>>)
    ELSE LET looped == ProcessRows(file, 1, <<>>, <<>>, <<>>)
             written == Append(looped.events,
                               WriteCsv("output_file", file.write_csv))
             uploaded == Append(written, Event("upload_to_s3", "output_file"))
         IN  IF looped.value = <<>> THEN looped
             ELSE IF ~file.use_cloud
             THEN Ended(looped.value, written, looped.stored)
             ELSE IF file.upload = "raise"
             THEN FileFailed(uploaded, looped.stored)
             ELSE Ended(looped.value, uploaded, looped.stored)

InitFile ==
    /\ AnalyzerAtRest
    /\ invocation \in { [fn |-> "process_file", file |-> f] : f \in InputFiles(MaxUsernames) }
    /\ outcome = NoOutcome

CallProcessFile ==
    /\ invocation.fn = "process_file"
    /\ outcome = NoOutcome
    /\ outcome' = ProcessFile(invocation.file)
    /\ results' = results \o outcome'.stored
    /\ UNCHANGED <<analyzer_rest, invocation>>

NextFile == CallProcessFile

SpecFile == InitFile /\ [][NextFile]_vars

----------------------------------------------------------------------------
(* TikTokAnalyzerApp.process_queue *)

\* a received message: the username of its body, what processing it meets,
\* and whether delete_message succeeds or raises
Messages ==
    [username : AccountNames,
     course : { Course("raise", NoResult, "true"),
                Course("paths", Estimate, "true"),
                Course("paths", Estimate, "raise") },
     delete : {"ok", "raise"}]

\* What process_queue meets: the queue is not enabled (no cloud mode or no
\* queue URL), receive_message raises, or it gives some messages.
Queues(max_messages) ==
    { [enabled |-> FALSE, receive |-> "ok", messages |-> <<>>],
      [enabled |-> TRUE, receive |-> "raise", messages |-> <<>>] }
    \cup { [enabled |-> TRUE, receive |-> "ok", messages |-> m] :
              m \in SeqsUpTo(Messages, max_messages) }

DeletedAlways(message) == TRUE

\* delete_message takes the message off the queue unless it raises
Deleted(message) == message.delete = "ok"

QueueEnded(value, events, stored, left) ==
    [kind |-> "return", value |-> value, events |-> events,
     stored |-> stored, left |-> left]

\* the loop over the received messages; left holds the positions of the
\* messages still on the queue
RECURSIVE ProcessMessages(_, _, _, _, _, _)
ProcessMessages(messages, j, processed_count, events, stored, left) ==
    IF j > Len(messages) THEN
        QueueEnded(processed_count,
                   events \o <<Event("report_metric", "ProcessedUsernames"),
                               Event("report_metric", "ProcessingTime")>>,
                   stored, left)
    ELSE LET message == messages[j]
             result == ProcessUsername(message.username, TRUE, message.course)
             called == Append(events, Event("process_username", j))
             deleting == Append(called, Event("delete_message", j))
             counted == Event("report_metric", "ErrorCount")
         IN  IF result.kind = "raise"
             THEN ProcessMessages(messages, j + 1, processed_count,
                                  Append(called, counted), stored, left)
             ELSE IF Deleted(message)
             THEN ProcessMessages(messages, j + 1, processed_count + 1,
                                  deleting, stored \o result.stored,
                                  left \ {j})
             ELSE ProcessMessages(messages, j + 1, processed_count + 1,
                                  Append(deleting, counted),
                                  stored \o result.stored, left)

ProcessQueue(queue) ==
    IF ~queue.enabled THEN QueueEnded(0, <<>>, <<>>, {})
    ELSE IF queue.receive = "raise"
    THEN QueueEnded(0, <<Event("receive_message", 0),
                         Event("report_metric", "ErrorCount")>>, <<>>, {})
    ELSE ProcessMessages(queue.messages, 1, 0,
                         <<Event("receive_message", Len(queue.messages))>>,
                         <<>>, DOMAIN queue.messages)

InitQueue ==
    /\ AnalyzerAtRest
    /\ invocation \in { [fn |-> "process_queue", queue |-> q] : q \in Queues(MaxMessages) }
    /\ outcome = NoOutcome

CallProcessQueue ==
    /\ invocation.fn = "process_queue"
    /\ outcome = NoOutcome
    /\ outcome' = ProcessQueue(invocation.queue)
    /\ results' = results \o outcome'.stored
    /\ UNCHANGED <<analyzer_rest, invocation>>

NextQueue == CallProcessQueue

SpecQueue == InitQueue /\ [][NextQueue]_vars

----------------------------------------------------------------------------
(* Properties of _identify_creator, checked under SpecIdentify *)

Range(seq) == { seq[p] : p \in DOMAIN seq }

\* observations a and b are within eps of each other (Euclidean distance)
WithinEps(a, b) ==
    LET u == all_face_data[a].face_feature
        v == all_face_data[b].face_feature
    IN  (u[1] - v[1]) * (u[1] - v[1]) + (u[2] - v[2]) * (u[2] - v[2]) <= Eps * Eps

\* the observations joined to one of S by a chain of steps within eps
RECURSIVE Reach(_)
Reach(S) ==
    LET T == S \cup { q \in DOMAIN all_face_data : \E p \in S : WithinEps(p, q) }
    IN  IF T = S THEN S ELSE Reach(T)

Isolated(p) == \A q \in DOMAIN all_face_data : q # p => ~WithinEps(p, q)

RECURSIVE SumCounts(_, _)
SumCounts(seq, S) ==
    IF S = {} THEN 0
    ELSE LET x == CHOOSE y \in S : TRUE
         IN  Count(seq, x) + SumCounts(seq, S \ {x})

\* C1: after identification of a non-empty list, creator_indices are exactly
\* the members of one cluster, and no cluster has more members than it.
C1_DominantIsLargest ==
    (pc = "done" /\ all_face_data # <<>>) =>
        /\ creator_indices # <<>>
        /\ Cardinality(Range(creator_indices)) = Len(creator_indices)
        /\ \E l \in Range(labels) :
              \A p \in DOMAIN labels : (labels[p] = l) <=> (p \in Range(creator_indices))
        /\ \A p \in DOMAIN labels : Count(labels, labels[p]) <= Len(creator_indices)

\* C1 witness: several clusters, and the dominant one (two members or more)
\* is not the cluster of the first observation.
C1_Witness ==
    /\ pc = "done"
    /\ Cardinality(Range(labels)) >= 2
    /\ Len(creator_indices) >= 2
    /\ 1 \notin Range(creator_indices)

\* C2: among the clusters that tie for the largest member count, the dominant
\* one holds the observation of smallest index: its first member precedes
\* every member of every tied cluster.
C2_TieGoesToEarliest ==
    (pc = "done" /\ all_face_data # <<>>) =>
        /\ \A q \in Range(creator_indices) : creator_indices[1] <= q
        /\ \A p \in DOMAIN labels :
              Count(labels, labels[p]) >= Len(creator_indices) => creator_indices[1] <= p

\* C2 witness: three clusters tie for the largest count.
C2_Witness ==
    /\ pc = "done"
    /\ \E a, b, c \in DOMAIN labels :
          /\ labels[a] # labels[b] /\ labels[a] # labels[c] /\ labels[b] # labels[c]
          /\ Count(labels, labels[a]) = Len(creator_indices)
          /\ Count(labels, labels[b]) = Len(creator_indices)
          /\ Count(labels, labels[c]) = Len(creator_indices)

\* C3: two observations have the same label exactly when a chain of
\* observations, each step within eps (Euclidean), joins them.
C3_ClustersAreComponents ==
    (pc = "done" /\ all_face_data # <<>>) =>
        /\ Len(labels) = Len(all_face_data)
        /\ \A a, b \in DOMAIN labels : (labels[a] = labels[b]) <=> (b \in Reach({a}))

\* C3 witness: two observations farther apart than eps share a cluster.
C3_Witness ==
    /\ pc = "done"
    /\ \E a, b \in DOMAIN labels : labels[a] = labels[b] /\ ~WithinEps(a, b)

\* C4: every observation has exactly one label, never the noise label; the
\* cluster sizes sum to the number of observations; an observation with no
\* other within eps is alone in its cluster.
C4_NoNoiseLabel ==
    (pc = "done" /\ all_face_data # <<>>) =>
        /\ Len(labels) = Len(all_face_data)
        /\ \A p \in DOMAIN labels : labels[p] # NoiseLabel /\ labels[p] >= 0
        /\ SumCounts(labels, Range(labels) \ {NoiseLabel}) = Len(all_face_data)
        /\ \A p \in DOMAIN labels : Isolated(p) => Count(labels, labels[p]) = 1

\* C4 witness: an observation with no neighbour beside a cluster of several.
C4_Witness ==
    /\ pc = "done"
    /\ \E p, q \in DOMAIN labels : Isolated(p) /\ Count(labels, labels[q]) >= 2

----------------------------------------------------------------------------
(* Properties of process_thumbnails, checked under Spec *)

\* image img has been through the body of the image loop
Handled(img) ==
    \E j \in DOMAIN calls : calls[j].op = "imread" /\ calls[j].img = img

\* face f of image img has an observation in the list
HasObservation(img, f) ==
    \E r \in DOMAIN all_face_data :
        all_face_data[r].img_path = img /\ all_face_data[r].face_ind = f

\* image img gets as far as the loop over its faces
ReachesFaceLoop(img) ==
    /\ image_paths[img].readable
    /\ image_paths[img].detector = "ok"
    /\ image_paths[img].faces # <<>>
    /\ image_paths[img].predictor = "ok"

HasBothValues(face) == face.age # None /\ face.gender # None

\* C5: process_thumbnails ends by returning, never by raising; it returns an
\* (age, gender) estimate exactly when the observation list is not empty, and
\* (None, None) when it is empty.
C5_EstimateIffObservation ==
    pc = "done" =>
        /\ ret.kind = "return"
        /\ (ret.age # None /\ ret.gender # None) <=> (all_face_data # <<>>)
        /\ all_face_data = <<>> => ret = NoResult

\* C5 witness: faces were detected, every one was skipped, and the run
\* returned (None, None).
C5_Witness ==
    /\ pc = "done"
    /\ ret = NoResult
    /\ \E j \in DOMAIN calls : calls[j].op = "resize"

\* C6: an image whose handling ended in the except clause has no observation
\* in the list, and at the end every image has been handled.
C6_FailedImageContributesNothing ==
    /\ \A img \in caught :
          \A r \in DOMAIN all_face_data : all_face_data[r].img_path # img
    /\ (pc = "done" /\ image_paths # <<>>) =>
          \A img \in DOMAIN image_paths : Handled(img)

\* C7: no face with an empty crop is passed to feature extraction, and in an
\* image that has been handled every face with a non-empty crop and both
\* values has its observation.
C7_DegenerateCropSkipped ==
    /\ \A j \in DOMAIN calls :
          calls[j].op = "resize" =>
              image_paths[calls[j].img].faces[calls[j].face].crop # "empty"
    /\ \A img \in DOMAIN image_paths :
          (Handled(img) /\ ReachesFaceLoop(img)) =>
              \A f \in DOMAIN image_paths[img].faces :
                  (image_paths[img].faces[f].crop = "ok"
                     /\ HasBothValues(image_paths[img].faces[f]))
                  => HasObservation(img, f)

\* C8: in an image that has been handled, a face without age or gender has
\* no observation, and beside such a face every face of the image with both
\* values (and a crop to take features from) has its observation.
C8_MissingValueSkipsOneFace ==
    \A img \in DOMAIN image_paths :
        (Handled(img) /\ ReachesFaceLoop(img)) =>
            LET faces == image_paths[img].faces
            IN  /\ \A f \in DOMAIN faces :
                      ~HasBothValues(faces[f]) => ~HasObservation(img, f)
                /\ (\E f \in DOMAIN faces : ~HasBothValues(faces[f])) =>
                      \A g \in DOMAIN faces :
                          (HasBothValues(faces[g]) /\ faces[g].crop = "ok")
                          => HasObservation(img, g)

\* the observations image img adds, whatever group it is handled in
ImageObservations(img) ==
    IF ReachesFaceLoop(img)
    THEN HandleFaces(img, image_paths[img].faces).obs
    ELSE <<>>

\* the observations of the first n images, in order
RECURSIVE AccountObservations(_)
AccountObservations(n) ==
    IF n = 0 THEN <<>>
    ELSE AccountObservations(n - 1) \o ImageObservations(n)

\* C9: whatever the batch size, the list at each group boundary holds the
\* observations of the images so far, in order; at the end it holds those of
\* all images, identification is given that whole list, and the value
\* returned is the one identification gives for it.
C9_BatchSizeIndependent ==
    /\ pc = "batch" =>
          all_face_data = AccountObservations(Min(i, Len(image_paths)))
    /\ pc = "done" =>
          /\ all_face_data = AccountObservations(Len(image_paths))
          /\ all_face_data # <<>> =>
                /\ Len(labels) = Len(AccountObservations(Len(image_paths)))
                /\ ret = IdentifyCreator(AccountObservations(Len(image_paths)),
                                         username).ret

\* C9 witness: three images in groups of two, observations from the first
\* and the last image clustered together in one list.
C9_Witness ==
    /\ pc = "done"
    /\ batch_size = 2
    /\ Len(image_paths) = 3
    /\ \E r \in DOMAIN all_face_data : all_face_data[r].img_path = 1
    /\ \E r \in DOMAIN all_face_data : all_face_data[r].img_path = 3
    /\ Len(labels) = Len(all_face_data)

\* C10: an identification call is the last call of the run (so there is at
\* most one, and no detector or predictor call follows it), every image has
\* been handled before it, and it is given the complete observation list.
C10_IdentifyAfterAllDetection ==
    \A j \in DOMAIN calls :
        calls[j].op = "identify" =>
            /\ j = Len(calls)
            /\ calls[j].face = Len(all_face_data)
            /\ \A img \in DOMAIN image_paths :
                  \E h \in 1..(j - 1) : calls[h].op = "imread" /\ calls[h].img = img

\* C10 witness: a run of several groups has identified, after a predictor
\* call on its last image.
C10_Witness ==
    /\ pc = "done"
    /\ Len(image_paths) > batch_size
    /\ \E j \in DOMAIN calls : calls[j].op = "identify"
    /\ \E j \in DOMAIN calls :
          calls[j].op = "predict" /\ calls[j].img = Len(image_paths)

----------------------------------------------------------------------------
(* Properties of the selection and aggregation steps of _identify_creator *)

\* the observations that carry the label of the selected cluster
DominantMembers ==
    { p \in DOMAIN labels : labels[p] = labels[creator_indices[1]] }

RECURSIVE AgeSum(_)
AgeSum(S) ==
    IF S = {} THEN 0
    ELSE LET p == CHOOSE q \in S : TRUE
         IN  all_face_data[p].age[1] + AgeSum(S \ {p})

C12_NoStateRetained ==
    [][results' = results /\ batch_size' = batch_size]_vars

\* C12: a run leaves batch_size alone and changes results only by appending,
\* on its return, one record of the account it was called for: its username,
\* the number of its observations, the size of its dominant cluster and the
\* rounded age and the gender it returns, whatever earlier accounts stored;
\* and the value it returns is the one its images alone determine.
C12_OnlyEstimateRetained ==
    /\ [](pc = "done" =>
            ret = IF AccountObservations(Len(image_paths)) = <<>>
                  THEN NoResult
                  ELSE IdentifyCreator(AccountObservations(Len(image_paths)),
                                       username).ret)
    /\ [][ /\ batch_size' = batch_size
           /\ \/ results' = results
              \/ /\ pc' = "done"
                 /\ ret'.age # None
                 /\ results' = Append(results,
                     [username |-> username,
                      age |-> Round1(AgeSum(DominantMembers'),
                                     Cardinality(DominantMembers')),
                      gender |-> ret'.gender[1],
                      appearances |-> Cardinality(DominantMembers'),
                      total_faces |-> Len(AccountObservations(Len(image_paths)))]) ]_vars

\* C12 witness: the second account has returned an estimate and the analyzer
\* holds the records of two different accounts.
C12_Witness ==
    /\ pc = "done"
    /\ ret.age # None
    /\ Len(results) = 2
    /\ results[1].username # results[2].username
    /\ results[1].total_faces # results[2].total_faces

\* C13: the returned age is the sum of the ages of the members of the
\* dominant cluster divided by their number, so it lies between the least
\* and the greatest of those ages.
C13_AgeIsClusterMean ==
    (pc = "done" /\ ret.age # None) =>
        LET avg == ret.age[1]
            ages == { all_face_data[p].age[1] : p \in DominantMembers }
        IN  /\ avg.den = Cardinality(DominantMembers)
            /\ avg.num = AgeSum(DominantMembers)
            /\ \E lo \in ages : (\A a \in ages : lo <= a) /\ lo * avg.den <= avg.num
            /\ \E hi \in ages : (\A a \in ages : a <= hi) /\ avg.num <= hi * avg.den

\* C13 witness: a dominant cluster with members of different ages, and an
\* observation outside it whose age would have moved the mean.
C13_Witness ==
    /\ pc = "done"
    /\ ret.age # None
    /\ \E p, q \in DominantMembers : all_face_data[p].age # all_face_data[q].age
    /\ DominantMembers # DOMAIN labels
    /\ ret.age[1].num * Len(all_face_data) # AgeSum(DOMAIN all_face_data) * ret.age[1].den

\* the members of the dominant cluster with gender g
MembersOfGender(g) == { p \in DominantMembers : all_face_data[p].gender[1] = g }

\* C14: the reported gender is carried by a member of the dominant cluster,
\* no gender has more members there, and a gender with as many members first
\* occurs later in the observation order.
C14_GenderIsClusterMode ==
    (pc = "done" /\ ret.gender # None) =>
        LET g == ret.gender[1]
        IN  /\ MembersOfGender(g) # {}
            /\ results[Len(results)].gender = g
            /\ \A p \in DominantMembers :
                  LET h == all_face_data[p].gender[1]
                  IN  /\ Cardinality(MembersOfGender(h)) <= Cardinality(MembersOfGender(g))
                      /\ Cardinality(MembersOfGender(h)) = Cardinality(MembersOfGender(g))
                            => \E q \in MembersOfGender(g) : q <= p

\* C14 witness: the genders of the dominant cluster tie, the reported one is
\* the one met first, and an observation outside the cluster exists.
C14_Witness ==
    /\ pc = "done"
    /\ ret.gender = Some("female")
    /\ Cardinality(MembersOfGender("male")) = Cardinality(MembersOfGender("female"))
    /\ DominantMembers # DOMAIN labels

\* C15: a list whose feature vectors are all the same, of any length (also
\* above the length from which the features are reduced), is one cluster,
\* and the stored record has appearances = total_faces = its length.
C15_IdenticalFeaturesOneCluster ==
    (/\ pc = "done"
     /\ all_face_data # <<>>
     /\ \A p \in DOMAIN all_face_data :
           all_face_data[p].face_feature = all_face_data[1].face_feature) =>
        /\ Len(labels) = Len(all_face_data)
        /\ \A p \in DOMAIN labels : labels[p] = labels[1] /\ labels[p] # NoiseLabel
        /\ results # <<>>
        /\ results[Len(results)].appearances = Len(all_face_data)
        /\ results[Len(results)].total_faces = Len(all_face_data)

\* C15 witness: more identical feature vectors than the reduction needs,
\* with different ages among them, have been identified.
C15_Witness ==
    /\ pc = "done"
    /\ Len(all_face_data) > PcaMinSamples
    /\ \A p \in DOMAIN all_face_data :
          all_face_data[p].face_feature = all_face_data[1].face_feature
    /\ \E p \in DOMAIN all_face_data : all_face_data[p].age # all_face_data[1].age
    /\ results # <<>>

\* the list is the scenario of C16 with the far observation at index o
ScenarioWithOutlier(o) ==
    /\ Len(all_face_data) = 4
    /\ all_face_data[o].age = Some(50)
    /\ all_face_data[o].gender = Some("female")
    /\ \A p \in DOMAIN all_face_data \ {o} :
          /\ ~WithinEps(o, p)
          /\ all_face_data[p].gender = Some("male")
          /\ \A q \in DOMAIN all_face_data \ {o} : WithinEps(p, q)
    /\ \A a \in {30, 32, 34} :
          Cardinality({ p \in DOMAIN all_face_data \ {o} :
                          all_face_data[p].age = Some(a) }) = 1

\* C16: three observations pairwise within Eps (ages 30, 32, 34, male) and
\* one farther than Eps from all of them (age 50, female), in any order,
\* give age 32.0, gender male, appearances 3 and total_faces 4.
C16_ThreeAndOneScenario ==
    (pc = "done" /\ \E o \in DOMAIN all_face_data : ScenarioWithOutlier(o)) =>
        /\ ret = [kind |-> "return", age |-> Some([num |-> 96, den |-> 3]),
                  gender |-> Some("male")]
        /\ results = <<[username |-> username, age |-> 320, gender |-> "male",
                        appearances |-> 3, total_faces |-> 4]>>
        /\ \A p \in DOMAIN all_face_data :
              (p \in Range(creator_indices)) <=> ~ScenarioWithOutlier(p)

\* C16 witness: the scenario has been identified with the far observation
\* first and two of the three close ones exactly Eps apart.
C16_Witness ==
    /\ pc = "done"
    /\ Len(all_face_data) = 4
    /\ ScenarioWithOutlier(1)
    /\ \E p, q \in 2..4 :
          DistSq(all_face_data[p].face_feature, all_face_data[q].face_feature)
              = Eps * Eps
    /\ results # <<>>

----------------------------------------------------------------------------
(* Properties of the estimate of a whole run, checked under Spec *)

\* C17: a run with exactly one usable observation puts it in one cluster,
\* stores appearances = 1 and total_faces = 1, and returns the age and the
\* gender of that observation.
C17_SingleObservation ==
    (pc = "done" /\ Len(all_face_data) = 1) =>
        /\ Len(labels) = 1
        /\ labels[1] # NoiseLabel
        /\ creator_indices = <<1>>
        /\ ret = [kind |-> "return",
                  age |-> Some([num |-> all_face_data[1].age[1], den |-> 1]),
                  gender |-> all_face_data[1].gender]
        /\ results = <<[username |-> username,
                        age |-> 10 * all_face_data[1].age[1],
                        gender |-> all_face_data[1].gender[1],
                        appearances |-> 1,
                        total_faces |-> 1]>>

\* C17 witness: a run over several images, one of them with several faces,
\* has ended with one usable observation.
C17_Witness ==
    /\ pc = "done"
    /\ Len(all_face_data) = 1
    /\ Len(image_paths) >= 2
    /\ Len(image_paths[all_face_data[1].img_path].faces) >= 2
    /\ results # <<>>

\* C18: every stored record has appearances equal to the size of the
\* dominant cluster and total_faces equal to the number of observations
\* accumulated for the account, hence 1 <= appearances <= total_faces.
C18_AppearancesAndTotal ==
    \A j \in DOMAIN results :
        /\ results[j].appearances = Cardinality(DominantMembers)
        /\ results[j].appearances = Len(creator_indices)
        /\ results[j].total_faces = Len(AccountObservations(Len(image_paths)))
        /\ results[j].total_faces = Len(all_face_data)
        /\ 1 <= results[j].appearances
        /\ results[j].appearances <= results[j].total_faces

\* C18 witness: a record with a dominant cluster of several observations
\* that are not all the observations of the account.
C18_Witness ==
    /\ results # <<>>
    /\ results[1].appearances >= 2
    /\ results[1].appearances < results[1].total_faces

\* C19: at every point of a run every observation in the accumulated list
\* has an age and a gender.
C19_ObservationsComplete ==
    \A p \in DOMAIN all_face_data :
        all_face_data[p].age # None /\ all_face_data[p].gender # None

\* C19 witness: in the middle of a run the list holds an observation from an
\* image that also showed a face without age and a face without gender.
C19_Witness ==
    /\ pc = "image"
    /\ \E p \in DOMAIN all_face_data :
          LET faces == image_paths[all_face_data[p].img_path].faces
          IN  /\ \E f \in DOMAIN faces : faces[f].age = None /\ faces[f].crop = "ok"
              /\ \E f \in DOMAIN faces : faces[f].gender = None /\ faces[f].crop = "ok"

\* C20: a run that accepted an observation selects a non-empty dominant
\* cluster and returns an estimate; the division by an empty count is never
\* reached.
C20_DominantClusterNonEmpty ==
    /\ ret.kind # "raise"
    /\ (pc = "done" /\ all_face_data # <<>>) =>
          /\ creator_indices # <<>>
          /\ ret.kind = "return"
          /\ ret.age # None
          /\ ret.age[1].den = Len(creator_indices)

\* C20 witness: a run with several clusters has returned an estimate from a
\* dominant cluster smaller than the list.
C20_Witness ==
    /\ pc = "done"
    /\ Cardinality(Range(labels)) >= 2
    /\ creator_indices # <<>>
    /\ Len(creator_indices) < Len(all_face_data)
    /\ ret.kind = "return"

----------------------------------------------------------------------------
(* Properties of the reduction step of _identify_creator *)

\* C21: the matrix given to the clusterer has one row per observation; with
\* 10 observations or fewer it is the raw feature matrix, unchanged; with
\* more it is a reduced matrix of min(100, rows - 1) columns whose row r is
\* the row of observation r (differences of rows are those of the raw
\* features of the same indices, to the common scale).
C21_ReductionAboveTen ==
    (pc = "done" /\ all_face_data # <<>>) =>
        LET n == Len(all_face_data)
            raw == [r \in 1..n |-> all_face_data[r].face_feature]
        IN  /\ Len(features.rows) = n
            /\ n <= 10 => features = [scale |-> 1, cols |-> 4096, rows |-> raw]
            /\ n > 10 =>
                  /\ features.cols = (IF n - 1 < 100 THEN n - 1 ELSE 100)
                  /\ features.cols # 4096
                  /\ \A r, q \in 1..n : \A c \in 1..2 :
                        features.rows[r][c] - features.rows[q][c]
                            = features.scale * (raw[r][c] - raw[q][c])

\* C21 witness: more than 10 observations with two different feature
\* vectors have been reduced to rows - 1 columns and clustered in two
\* clusters.
C21_Witness ==
    /\ pc = "done"
    /\ Len(all_face_data) > 10
    /\ features.cols = Len(all_face_data) - 1
    /\ features.scale > 1
    /\ Cardinality(Range(labels)) = 2

----------------------------------------------------------------------------
(* Properties of the calls and the course of a run, checked under Spec *)

\* C22: the detector is called only on images that were read, the predictor
\* only on images with at least one detected face; an unreadable image or
\* one without faces raises nothing and adds no observation, and the images
\* after it are handled.
C22_NoCallOnSkippedImage ==
    /\ \A j \in DOMAIN calls :
          /\ calls[j].op = "detect" => image_paths[calls[j].img].readable
          /\ calls[j].op = "predict" =>
                /\ image_paths[calls[j].img].readable
                /\ image_paths[calls[j].img].faces # <<>>
    /\ \A img \in DOMAIN image_paths :
          (~image_paths[img].readable \/ image_paths[img].faces = <<>>) =>
              /\ \A r \in DOMAIN all_face_data : all_face_data[r].img_path # img
              /\ (~image_paths[img].readable => img \notin caught)
              /\ (pc = "done" /\ Handled(img)) =>
                    \A later \in DOMAIN image_paths : Handled(later)

\* C22 witness: a run has ended whose first image was unreadable, whose
\* second showed no face and whose third gave an observation.
C22_Witness ==
    /\ pc = "done"
    /\ Len(image_paths) = 3
    /\ ~image_paths[1].readable
    /\ image_paths[2].readable /\ image_paths[2].detector = "ok"
    /\ image_paths[2].faces = <<>>
    /\ \E r \in DOMAIN all_face_data : all_face_data[r].img_path = 3
    /\ \E j \in DOMAIN calls : calls[j].op = "detect" /\ calls[j].img = 2

\* C23 (as stated): every run goes through Identifying, the stage after
\* the loops, before it is Done.
C23_DoneOnlyAfterIdentifying ==
    [][pc' = "done" => pc = "finish"]_vars

\* the moves of the state machine: Idle (idle), DetectingBatch(i) (batch,
\* with offset i), AccumulatingObservations (image), Identifying (finish),
\* Done (done); an empty list goes from Idle straight to Done.
StateMachineStep ==
    /\ <<pc, pc'>> \in { <<"idle", "batch">>, <<"batch", "image">>,
                         <<"image", "image">>, <<"image", "batch">>,
                         <<"batch", "finish">>, <<"finish", "done">>,
                         <<"idle", "done">> }
    /\ (pc = "idle" /\ pc' = "done") <=> (pc = "idle" /\ image_paths = <<>>)
    /\ (pc = "image" /\ pc' = "batch") => i' > i
    /\ ~(pc = "image" /\ pc' = "batch") => (i' = i \/ pc = "idle")
    /\ (pc = "batch" /\ pc' = "finish") => i >= Len(image_paths)

\* the images are read one after the other in input order, none twice
ReadInOrder ==
    /\ \A j, h \in DOMAIN calls :
          (j < h /\ calls[j].op = "imread" /\ calls[h].op = "imread") =>
              calls[j].img < calls[h].img
    /\ pc = "done" => \A img \in DOMAIN image_paths : Handled(img)

\* C23: a run of process_thumbnails on a list that is not empty moves
\* Idle -> DetectingBatch(i) -> AccumulatingObservations -> ... ->
\* Identifying -> Done with a strictly increasing offset i (a run on the
\* empty list moves from Idle to Done at once); every image is read exactly
\* once, in input order; and the run reaches Done.
C23_RunReachesDone ==
    /\ [][StateMachineStep]_vars
    /\ []ReadInOrder
    /\ <>(pc = "done")

\* C23 witness: a run of three images in groups of two is Done, after the
\* offsets 0 and 2.
C23_Witness ==
    /\ pc = "done"
    /\ Len(image_paths) = 3
    /\ batch_size = 2
    /\ i = 4
    /\ \A img \in DOMAIN image_paths : Handled(img)

----------------------------------------------------------------------------
(* Properties of the functions around the analyzer *)

\* the events of the outcome with the given op, in order
EventsOf(op) == SelectSeq(outcome.events, LAMBDA e : e.op = op)

\* C30: download_file ends by returning a boolean after at most 3 attempts:
\* True at the first attempt that completes, False after the third failed
\* one; it sleeps 5 s after the first failure, 10 s after the second, and
\* not after the last.
C30_DownloadReturnsBoolean ==
    (invocation.fn = "download_file" /\ outcome # NoOutcome) =>
        /\ outcome.kind = "return"
        /\ outcome.value \in BOOLEAN
        /\ Len(EventsOf("get")) <= 3
        /\ outcome.events[Len(outcome.events)].op = "get"
        /\ outcome.value = FALSE => Len(EventsOf("get")) = 3
        /\ [j \in 1..Len(EventsOf("sleep")) |-> EventsOf("sleep")[j].n]
              = SubSeq(<<5, 10>>, 1, Len(EventsOf("get")) - 1)

RECURSIVE Pow(_, _)
Pow(b, e) == IF e = 0 THEN 1 ELSE b * Pow(b, e - 1)

\* C27: the wrapper of retry_with_backoff invokes the function at most
\* max_retries + 1 times; the first invocation that returns ends the call
\* with its value; when all max_retries + 1 invocations raise a listed
\* exception the last one is re-raised; an unlisted exception propagates at
\* once; the wait before the k-th retry is
\* min(initial_delay * backoff_factor^(k-1), max_delay), and there is no
\* wait after the last invocation.
C27_RetryWithBackoff ==
    (invocation.fn = "wrapper" /\ outcome # NoOutcome) =>
        LET p == invocation.params
            ends == invocation.ends
            n == Len(EventsOf("call"))
            sleeps == EventsOf("sleep")
        IN  /\ n >= 1 /\ n <= p.max_retries + 1
            /\ Len(outcome.events) = 2 * n - 1
            /\ \A j \in 1..n : outcome.events[2 * j - 1] = Event("call", j - 1)
            /\ \A j \in 1..(n - 1) : ends[j] = "listed"
            /\ ends[n] = "value" => outcome.kind = "return"
            /\ ends[n] # "value" => outcome.kind = "raise"
            /\ outcome.value = <<ends[n], n - 1>>
            /\ ends[n] = "listed" => n = p.max_retries + 1
            /\ \A j \in 1..(n - 1) :
                  outcome.events[2 * j]
                      = Event("sleep", Min(p.initial_delay * Pow(p.backoff_factor, j - 1),
                                           p.max_delay))

\* C27 witness: with the scraper's arguments (3 retries from 5 s) all four
\* invocations raise a listed exception; the waits were 5, 10 and 20 s.
C27_Witness ==
    /\ invocation.fn = "wrapper"
    /\ outcome.kind = "raise"
    /\ outcome.value = <<"listed", 3>>
    /\ [j \in 1..Len(EventsOf("sleep")) |-> EventsOf("sleep")[j].n] = <<5, 10, 20>>

\* the download_file calls of the a-th execution of the scraper's body
DownloadsOf(a) == SelectSeq(outcome.bodies[a].events, LAMBDA e : e.op = "download_file")

\* the number of calls among the first d of the a-th execution that returned True
SucceededBefore(a, d) ==
    Cardinality({ c \in 1..d :
        invocation.runs[a].items[DownloadsOf(a)[c].item] = "true" })

C28_ResultsManagement ==
    invocation.fn = "results" =>
        LET cleared == \E c \in DOMAIN CallsSoFar : CallsSoFar[c].op = "clear_results"
        IN  /\ analyzer_rest = invocation.rest
            /\ results = IF cleared THEN <<>> ELSE invocation.stored
            /\ \A c \in DOMAIN CallsSoFar :
                  CallsSoFar[c].op = "get_results" =>
                      CallsSoFar[c].n =
                          IF \E b \in 1..(c - 1) : CallsSoFar[b].op = "clear_results"
                          THEN <<>>
                          ELSE invocation.stored

\* C28 witness: two records were stored; get_results returned them, then
\* clear_results was called, then get_results returned the empty list.
C28_Witness ==
    /\ invocation.fn = "results"
    /\ Len(invocation.stored) = 2
    /\ Len(CallsSoFar) = 3
    /\ CallsSoFar[1] = Event("get_results", invocation.stored)
    /\ CallsSoFar[2].op = "clear_results"
    /\ CallsSoFar[3] = Event("get_results", <<>>)

\* the per-user result file has been written
ResultFileWritten(events) ==
    \E e \in DOMAIN events : events[e].op = "write_csv" /\ events[e].written

\* C24: process_username never raises: it returns None when the scraper
\* yields no thumbnails, when the analyzer returns no age or no gender, or
\* when a step throws; otherwise it returns the record of the username, the
\* age rounded to one decimal and the gender; and the per-user result file
\* is written only when the record is returned.
C24_RecordOrNone ==
    (invocation.fn = "process_username" /\ outcome # NoOutcome) =>
        LET c == invocation.course
            no_estimate == c.analysis.kind = "return" /\ c.analysis.age = None
            threw == \E e \in DOMAIN outcome.events :
                         outcome.events[e].op = "report_metric"
        IN  /\ outcome.kind = "return"
            /\ (c.scrape = "empty" \/ no_estimate \/ threw) => outcome.value = None
            /\ outcome.value # None =>
                  outcome.value =
                      Some([username |-> invocation.username,
                            age |-> Round1(c.analysis.age[1].num, c.analysis.age[1].den),
                            gender |-> c.analysis.gender[1]])
            /\ ResultFileWritten(outcome.events) => outcome.value # None

\* the results of the rows from the j-th on that are not None, in order
RECURSIVE RowResults(_, _)
RowResults(file, j) ==
    IF j > Len(file.rows) THEN <<>>
    ELSE LET r == ProcessUsername(file.rows[j].username, file.use_cloud,
                                  file.rows[j].course).value
         IN  (IF r = None THEN <<>> ELSE r) \o RowResults(file, j + 1)

\* C25: process_file calls process_username exactly once per username of
\* the input file, in file order, and returns exactly the results that are
\* not None, in that order; a failure of one username does not stop the
\* later ones; an error reading the input gives the empty list.
C25_ResultsInFileOrder ==
    (invocation.fn = "process_file" /\ outcome # NoOutcome) =>
        LET file == invocation.file
        IN  /\ outcome.kind = "return"
            /\ EventsOf("process_username")
                  = [j \in 1..Len(file.rows) |-> Event("process_username", j)]
            /\ outcome.value = RowResults(file, 1)
            /\ Len(outcome.value) <= Len(file.rows)
            /\ file.read # "ok" => outcome.value = <<>>

\* the positions in the history of the events with the given op for message j
EventsAt(op, j) ==
    { e \in DOMAIN outcome.events :
          outcome.events[e].op = op /\ outcome.events[e].n = j }

\* C29: in process_queue a message is off the queue only when
\* delete_message was called for it after process_username had returned
\* for it, and delete_message is called at most once per message; the
\* count returned is the number of messages for which process_username
\* returned; a message whose handling met an error stays on the queue and
\* the messages after it are still processed.
C29_DeleteAfterProcessing ==
    (invocation.fn = "process_queue" /\ outcome # NoOutcome) =>
        LET messages == invocation.queue.messages
        IN  /\ outcome.kind = "return"
            /\ \A j \in DOMAIN messages :
                  /\ Cardinality(EventsAt("process_username", j)) = 1
                  /\ Cardinality(EventsAt("delete_message", j)) <= 1
                  /\ \A d \in EventsAt("delete_message", j) :
                        \E c \in EventsAt("process_username", j) : c < d
                  /\ j \notin outcome.left => EventsAt("delete_message", j) # {}
                  /\ messages[j].delete = "raise" => j \in outcome.left
            /\ outcome.left \subseteq DOMAIN messages
            /\ outcome.value = Len(EventsOf("process_username"))
            /\ EventsOf("process_username")
                  = [j \in 1..Len(messages) |-> Event("process_username", j)]

\* C29 witness: of three messages the second cannot be deleted; it stays
\* on the queue, the third is processed and deleted, and the count is 3.
C29_Witness ==
    /\ invocation.fn = "process_queue"
    /\ outcome # NoOutcome
    /\ Len(invocation.queue.messages) = 3
    /\ outcome.left = {2}
    /\ outcome.value = 3
    /\ EventsAt("delete_message", 3) # {}

====
